---- MODULE Spec2Model ----
(***************************************************************************)
(* Model of the Google Calendar export tool (src/main.py).                 *)
(*                                                                         *)
(* GoogleCalendarExporter.authenticate is modelled as one action built     *)
(* from the steps of its body (load token.pickle, refresh, OAuth flow,     *)
(* save, build and test the service).  The outcomes of the collaborators   *)
(* (token endpoint, browser flow, file system, calendar API) are inputs    *)
(* of the action.  The program is single-threaded, so a method call is     *)
(* one atomic step; the calls it made are recorded in `calls`.             *)
(***************************************************************************)
EXTENDS Naturals, Sequences, FiniteSets, TLC

VARIABLES
    client_id,          \* self.client_id is truthy                (main.py:39)
    client_secret,      \* self.client_secret is truthy            (main.py:40)
    credentials_exists, \* os.path.exists(self.credentials_file)   (main.py:83)
    token_pickle,       \* content of the file token.pickle        (main.py:51)
    creds,              \* self.creds                              (main.py:42)
    service,            \* self.service                            (main.py:41)
    calls,              \* calls made by the last authenticate()
    ret,                \* how the last authenticate() ended
    msg,                \* which error message it printed
    store0,             \* token.pickle when the last authenticate() began
    creds0,             \* self.creds when the last authenticate() began
    store1,             \* token.pickle when the last authenticate() ended
    service0,           \* self.service when the last authenticate() began
    dumped,             \* the object the last authenticate() gave to pickle.dump
    raw_event,          \* a raw event record given to _process_event
    normalized,         \* what _process_event made of raw_event
    accept_event,       \* an event given to is_event_accepted_by_me
    accepted,           \* what is_event_accepted_by_me answered
    remote_items,       \* the records the remote calendar holds in the window
    fetch,              \* the last get_events(): the remote answer and the result
    export,             \* the last export_to_json(): argument, result, document
    main                \* a run of main(): its arguments, position and calls

authVars == <<client_id, client_secret, credentials_exists, token_pickle, creds,
              service, calls, ret, msg, store0, creds0, store1, service0, dumped>>

normVars == <<raw_event, normalized>>

acceptVars == <<accept_event, accepted>>

pipeVars == <<remote_items, fetch, export>>

vars == <<authVars, normVars, acceptVars, pipeVars, main>>

----------------------------------------------------------------------------
(* Credentials.  A google.oauth2 Credentials object is seen by the code    *)
(* through .valid, .expired and .refresh_token only.                       *)

\* None (self.creds), and a missing token.pickle.
NoCred == [kind |-> "none", token |-> FALSE, expired |-> FALSE, refresh |-> FALSE]

\* A token.pickle that pickle.load cannot read (left by an interrupted dump).
Corrupt == [kind |-> "corrupt", token |-> FALSE, expired |-> FALSE, refresh |-> FALSE]

Credentials == [kind : {"cred"}, token : BOOLEAN, expired : BOOLEAN, refresh : BOOLEAN]

\* `self.creds` as a condition: None is falsy, an object is truthy.
Truthy(c) == c.kind = "cred"

\* creds.valid: an access token is present and it has not expired.
Valid(c) == c.kind = "cred" /\ c.token /\ ~c.expired

\* The login condition with the validity test dropped.
NeedsLoginAlways(c) == TRUE

\* `not self.creds or not self.creds.valid`
NeedsLogin(c) == ~Truthy(c) \/ ~Valid(c)

\* `self.creds and self.creds.expired and self.creds.refresh_token`
CanRefresh(c) == Truthy(c) /\ c.expired /\ c.refresh

\* creds.refresh(Request()) when it succeeds: a new access token and expiry,
\* the refresh token is kept.
Refreshed(c) == [c EXCEPT !.token = TRUE, !.expired = FALSE]

\* What flow.run_local_server returns when it succeeds.
FlowCredentials == [kind : {"cred"}, token : {TRUE}, expired : {FALSE}, refresh : BOOLEAN]

Call(c, r) == [call |-> c, result |-> r]

\* The state authenticate() works on.
AuthState(c, t, s) ==
    [creds |-> c, store |-> t, service |-> s, calls |-> << >>,
     ret |-> "running", msg |-> "", dumped |-> NoCred]

----------------------------------------------------------------------------
(* The steps of authenticate().                                            *)

\* if os.path.exists('token.pickle'): self.creds = pickle.load(token)
\* pickle.load raises on an unreadable file and nothing catches it.
LoadToken(st) ==
    IF st.store.kind = "none" THEN st
    ELSE IF st.store.kind = "corrupt"
         THEN [st EXCEPT !.ret = "raised", !.msg = "pickle",
                         !.calls = Append(@, Call("load", "fail"))]
         ELSE [st EXCEPT !.creds = st.store,
                         !.calls = Append(@, Call("load", "ok"))]

\* A failed-refresh handler that forgets os.remove('token.pickle').
RefreshFailedKeepsFile(st) ==
    [st EXCEPT !.calls = Append(@, Call("refresh", "fail")),
               !.creds = NoCred]

\* A failed-refresh handler that empties token.pickle instead of deleting it.
RefreshFailedTruncates(st) ==
    [st EXCEPT !.calls = Append(Append(@, Call("refresh", "fail")),
                                Call("remove", "ok")),
               !.store = Corrupt,
               !.creds = NoCred]

\* The handler of a failed refresh: delete token.pickle (os.remove is taken
\* to succeed on the file just read), drop self.creds.
RefreshFailed(st) ==
    [st EXCEPT !.calls = IF st.store.kind = "none"
                         THEN Append(@, Call("refresh", "fail"))
                         ELSE Append(Append(@, Call("refresh", "fail")),
                                     Call("remove", "ok")),
               !.store = NoCred,
               !.creds = NoCred]

\* if creds and creds.expired and creds.refresh_token: try refresh
RefreshStep(st, refreshOk) ==
    IF ~CanRefresh(st.creds) THEN st
    ELSE IF refreshOk
         THEN [st EXCEPT !.creds = Refreshed(@),
                         !.calls = Append(@, Call("refresh", "ok"))]
         ELSE RefreshFailed(st)

\* A selection that does not test that the credentials file exists.
SelectAuthSourceNoExistsTest(cid, csec, fileExists) ==
    IF cid /\ csec THEN "explicit" ELSE "file"

\* A selection that prefers the credentials file to the explicit pair.
SelectAuthSourceFileFirst(cid, csec, fileExists) ==
    IF fileExists THEN "file"
    ELSE IF cid /\ csec THEN "explicit"
    ELSE "none"

\* The AuthSource the configuration selects.
SelectAuthSource(cid, csec, fileExists) ==
    IF cid /\ csec THEN "explicit"
    ELSE IF fileExists THEN "file"
    ELSE "none"

\* if not creds or not creds.valid: run the OAuth flow of the selected source
FlowStep(st, src, flowOk, newCreds) ==
    IF ~NeedsLogin(st.creds) THEN st
    ELSE IF src = "none"
         THEN [st EXCEPT !.ret = "False", !.msg = "NoCredentialsConfigured"]
    ELSE IF flowOk
         THEN [st EXCEPT !.creds = newCreds,
                         !.calls = Append(@, Call("flow_" \o src, "ok"))]
         ELSE [st EXCEPT !.ret = "False", !.msg = "OAuthFlow",
                         !.calls = Append(@, Call("flow_" \o src, "fail"))]

\* with open('token.pickle', 'wb') as token: pickle.dump(self.creds, token)
\* A failure is caught: either open() failed (file untouched) or dump failed
\* after open() truncated the file.
SaveStep(st, saveRes) ==
    [st EXCEPT !.dumped = st.creds,
               !.calls = Append(@, Call("save", saveRes)),
               !.store = IF saveRes = "ok" THEN st.creds
                         ELSE IF saveRes = "truncated" THEN Corrupt
                         ELSE @]

\* A handler that forgets `self.service = None`.
ServiceFailedKeepsService(st) ==
    [st EXCEPT !.service = "Service", !.ret = "False", !.msg = "Service",
               !.calls = Append(@, Call("validate", "fail"))]

\* except Exception: self.service = None; return False
ServiceFailed(st) ==
    [st EXCEPT !.service = "None", !.ret = "False", !.msg = "Service",
               !.calls = Append(@, Call("validate", "fail"))]

\* self.service = build(...); calendarList().list(maxResults=1).execute()
BuildStep(st, validateOk) ==
    IF validateOk
    THEN [st EXCEPT !.service = "Service", !.ret = "True",
                    !.calls = Append(@, Call("validate", "ok"))]
    ELSE ServiceFailed(st)

\* A body whose save block is dedented out of the login block: it saves on
\* every path that reaches the service.
AuthResultAlwaysSaves(st0, src, refreshOk, flowOk, newCreds, saveRes, validateOk) ==
    LET s1 == LoadToken(st0) IN
    IF s1.ret # "running" THEN s1
    ELSE IF ~NeedsLogin(s1.creds) THEN BuildStep(SaveStep(s1, saveRes), validateOk)
    ELSE LET s2 == RefreshStep(s1, refreshOk)
             s3 == FlowStep(s2, src, flowOk, newCreds)
         IN  IF s3.ret # "running" THEN s3
             ELSE BuildStep(SaveStep(s3, saveRes), validateOk)

\* A body that gives up when the save fails.
AuthResultSaveFatal(st0, src, refreshOk, flowOk, newCreds, saveRes, validateOk) ==
    LET s1 == LoadToken(st0) IN
    IF s1.ret # "running" THEN s1
    ELSE IF ~NeedsLogin(s1.creds) THEN BuildStep(s1, validateOk)
    ELSE LET s2 == RefreshStep(s1, refreshOk)
             s3 == FlowStep(s2, src, flowOk, newCreds)
         IN  IF s3.ret # "running" THEN s3
             ELSE IF saveRes # "ok"
                  THEN [SaveStep(s3, saveRes) EXCEPT !.ret = "False", !.msg = "Save"]
                  ELSE BuildStep(SaveStep(s3, saveRes), validateOk)

\* The body of authenticate().
AuthResult(st0, src, refreshOk, flowOk, newCreds, saveRes, validateOk) ==
    LET s1 == LoadToken(st0) IN
    IF s1.ret # "running" THEN s1
    ELSE IF ~NeedsLogin(s1.creds) THEN BuildStep(s1, validateOk)
    ELSE LET s2 == RefreshStep(s1, refreshOk)
             s3 == FlowStep(s2, src, flowOk, newCreds)
         IN  IF s3.ret # "running" THEN s3
             ELSE BuildStep(SaveStep(s3, saveRes), validateOk)

SaveResults == {"ok", "unchanged", "truncated"}

----------------------------------------------------------------------------
(* Event records.  A Python dict is a function whose domain is the set of  *)
(* keys it has; d.get(k, default) is Get.                                  *)

MaxAttendees == 2
MaxEvents == 2

Empty == [k \in {} |-> ""]

Get(d, k, default) == IF k \in DOMAIN d THEN d[k] ELSE default

\* {k: v} when present, {} otherwise.
Opt(present, k, v) == IF present THEN k :> v ELSE Empty

SeqsUpTo(S, n) == UNION {[1..m -> S] : m \in 0..n}

\* event['start']: all-day events carry 'date', timed events 'dateTime'.
StartBoundaries ==
    {Opt(d, "date", "2024-05-01") @@ Opt(t, "dateTime", "2024-05-01T09:00:00Z") :
        d \in BOOLEAN, t \in BOOLEAN}

EndBoundaries ==
    {Opt(d, "date", "2024-05-02") @@ Opt(t, "dateTime", "2024-05-01T10:00:00Z") :
        d \in BOOLEAN, t \in BOOLEAN}

\* event['attendees'][i] as the API sends it.
RawAttendees ==
    {("email" :> "guest@example.com") @@ Opt(s # "", "responseStatus", s)
                                      @@ Opt(me, "self", TRUE) :
        s \in {"", "accepted", "declined"}, me \in BOOLEAN}

\* event['organizer'] as the API sends it.
RawOrganizers ==
    {("email" :> "boss@example.com") @@ Opt(me, "self", TRUE) : me \in BOOLEAN}

\* A raw event record: 'id', and each of the other keys present or not.
RawEvent(id, hasSummary, hasStart, start, hasEnd, end, hasOrg, org, hasAtt, att) ==
    ("id" :> id) @@ Opt(hasSummary, "summary", "Standup")
                 @@ Opt(hasStart, "start", start)
                 @@ Opt(hasEnd, "end", end)
                 @@ Opt(hasOrg, "organizer", org)
                 @@ Opt(hasAtt, "attendees", att)

\* The raw records _process_event is checked on.  A key that is absent and
\* a key absent with another value beside it are the same record, so the
\* value is fixed when the key is absent.
RawEvents ==
    {RawEvent("e1", hasSummary, hasStart, start, hasEnd, end, hasOrg, org,
              att # << >>, att) :
        hasSummary \in BOOLEAN,
        hasStart \in BOOLEAN, start \in StartBoundaries,
        hasEnd \in BOOLEAN, end \in EndBoundaries,
        hasOrg \in BOOLEAN, org \in RawOrganizers,
        att \in SeqsUpTo(RawAttendees, MaxAttendees)}

----------------------------------------------------------------------------
(* GoogleCalendarExporter._process_event                                   *)

\* One entry of the processed attendees list (email, response_status and
\* self; display_name, optional and organizer are copied the same way).
ProcessAttendee(a) ==
    [email |-> Get(a, "email", ""),
     response_status |-> Get(a, "responseStatus", "needsAction"),
     self |-> Get(a, "self", FALSE)]

ProcessAttendees(event) ==
    LET raw == Get(event, "attendees", << >>)
    IN  [i \in 1..Len(raw) |-> ProcessAttendee(raw[i])]

\* An all-day test that looks at the end boundary instead of the start.
IsAllDayByEnd(start, end) == "date" \in DOMAIN end

\* if 'date' in start
IsAllDay(start, end) == "date" \in DOMAIN start

\* start['date'] / end['date'] raise KeyError when the key is absent.
ProcessRaises(event) ==
    LET start == Get(event, "start", Empty)
        end   == Get(event, "end", Empty)
    IN  IsAllDay(start, end) /\ ("date" \notin DOMAIN start \/ "date" \notin DOMAIN end)

\* The dict _process_event returns (description, location, created, updated,
\* recurring_event_id, color_id and event_type are copied like id, with ''
\* for a missing key, and timezone comes from the boundaries' timeZone).
ProcessedEvent(event) ==
    LET start == Get(event, "start", Empty)
        end   == Get(event, "end", Empty)
        allDay == IsAllDay(start, end)
        attendees == ProcessAttendees(event)
    IN  [id |-> Get(event, "id", ""),
         summary |-> Get(event, "summary", "No Title"),
         start_time |-> IF allDay THEN start["date"] ELSE Get(start, "dateTime", ""),
         end_time |-> IF allDay THEN end["date"] ELSE Get(end, "dateTime", ""),
         all_day |-> allDay,
         organizer |-> [email |-> Get(Get(event, "organizer", Empty), "email", ""),
                        self |-> Get(Get(event, "organizer", Empty), "self", FALSE)],
         attendees |-> attendees,
         attendees_count |-> Len(attendees)]

NotRun == [status |-> "none"]

\* _process_event(event): the dict, or the KeyError.
ProcessEvent(event) ==
    IF ProcessRaises(event)
    THEN [status |-> "KeyError"]
    ELSE [status |-> "ok", event |-> ProcessedEvent(event)]

----------------------------------------------------------------------------
(* is_event_accepted_by_me                                                 *)

AcceptedStatuses == {"accepted", "tentative"}

ResponseStatuses == {"needsAction", "declined", "tentative", "accepted"}

RECURSIVE FirstSelfFrom(_, _)
\* for attendee in attendees: if attendee.get('self', False): ...
\* The index of the first attendee marked self, 0 when there is none.
FirstSelfFrom(attendees, i) ==
    IF i > Len(attendees) THEN 0
    ELSE IF Get(attendees[i], "self", FALSE) THEN i
    ELSE FirstSelfFrom(attendees, i + 1)

\* Strategy 4 without the count: any accepted attendee is taken for the owner.
SingleAcceptedAny(attendees) ==
    \E i \in DOMAIN attendees :
        Get(attendees[i], "response_status", "") \in AcceptedStatuses

\* Strategy 4: some attendee has accepted and the accepted attendees are one.
SingleAccepted(attendees) ==
    \E i \in DOMAIN attendees :
        /\ Get(attendees[i], "response_status", "") \in AcceptedStatuses
        /\ Cardinality({j \in DOMAIN attendees :
               Get(attendees[j], "response_status", "") \in AcceptedStatuses}) = 1

is_event_accepted_by_me(event) ==
    LET attendees == Get(event, "attendees", << >>)
        k == FirstSelfFrom(attendees, 1)
    IN  IF k # 0
        THEN Get(attendees[k], "response_status", "") \in AcceptedStatuses
        ELSE IF Get(Get(event, "organizer", Empty), "self", FALSE) THEN TRUE
        ELSE IF attendees = << >> THEN TRUE
        ELSE IF SingleAccepted(attendees) THEN TRUE
        ELSE IF attendees = << >> /\ Get(event, "summary", "") # "" THEN TRUE
        ELSE FALSE

\* The processed attendees the heuristic is checked on.
Attendees ==
    [email : {"guest@example.com"}, response_status : ResponseStatuses, self : BOOLEAN]

\* The processed events the heuristic is checked on.
AcceptEvents ==
    [id : {"e1"}, summary : {"Standup"},
     organizer : [email : {"boss@example.com"}, self : BOOLEAN],
     attendees : SeqsUpTo(Attendees, MaxAttendees)]

----------------------------------------------------------------------------
(* GoogleCalendarExporter.get_events                                       *)

RECURSIVE ProcessAllFrom(_, _, _)
\* for event in events: processed_events.append(self._process_event(event))
\* The loop from index i with `done` processed so far; a KeyError ends it.
ProcessAllFrom(items, i, done) ==
    IF i > Len(items) THEN [status |-> "returned", events |-> done]
    ELSE LET p == ProcessEvent(items[i])
         IN  IF p.status = "KeyError"
             THEN [status |-> "raised", error |-> "KeyError", events |-> << >>]
             ELSE ProcessAllFrom(items, i + 1, Append(done, p.event))

\* What events().list(...).execute() can do: answer, raise HttpError (the API
\* answered with an error status), or raise something else (no connection,
\* a timeout, a failed token refresh inside the transport).
ListOutcomes == {"ok", "HttpError", "OtherError"}

\* except HttpError as error: return []  -- any other exception propagates.
FetchFailed(error) ==
    IF error = "HttpError"
    THEN [status |-> "returned", events |-> << >>]
    ELSE [status |-> "raised", error |-> error, events |-> << >>]

ProcessAll(items) == ProcessAllFrom(items, 1, << >>)

\* get_events(): its result, with what the remote was asked and answered.
GetEventsResult(svc, outcome, items) ==
    IF svc = "None"
    THEN [listed |-> "no", items |-> << >>] @@ [status |-> "returned", events |-> << >>]
    ELSE IF outcome # "ok"
    THEN [listed |-> outcome, items |-> << >>] @@ FetchFailed(outcome)
    ELSE LET r == ProcessAll(items)
         IN  [listed |-> "ok", items |-> items] @@
             (IF r.status = "raised" THEN FetchFailed(r.error) ELSE r)

NoFetch == [listed |-> "none", items |-> << >>, status |-> "none", events |-> << >>]

----------------------------------------------------------------------------
(* GoogleCalendarExporter.get_color_definitions and export_to_json         *)

ColorDefinitions == [kind |-> "calendar#colors"]

ColorOutcomes == {"ok", "HttpError", "OtherError"}

\* get_color_definitions(): {} without a service or on HttpError.
GetColorDefinitions(svc, outcome) ==
    IF svc = "None" THEN [status |-> "returned", colors |-> Empty]
    ELSE IF outcome = "ok" THEN [status |-> "returned", colors |-> ColorDefinitions]
    ELSE IF outcome = "HttpError" THEN [status |-> "returned", colors |-> Empty]
    ELSE [status |-> "raised", colors |-> Empty]

\* A cleaning that drops attendees_count along with attendees.
CleanedEventDropsCount(event) ==
    [k \in DOMAIN event \ {"attendees", "attendees_count"} |-> event[k]]

\* {k: v for k, v in event.items() if k != 'attendees'}
CleanedEvent(event) == [k \in DOMAIN event \ {"attendees"} |-> event[k]]

CleanedEvents(events) == [i \in 1..Len(events) |-> CleanedEvent(events[i])]

\* export_data (export_timestamp, the time of the call, is left out).
ExportData(events, calendar_info, colors) ==
    [total_events |-> Len(CleanedEvents(events)),
     calendar_info |-> calendar_info,
     color_definitions |-> colors,
     events |-> CleanedEvents(events)]

NoDocument == [total_events |-> 0, calendar_info |-> Empty,
               color_definitions |-> Empty, events |-> << >>]

CalendarInfo == [id |-> "primary", summary |-> "Work"]

\* export_to_json(events, filename, calendar_info): every exception, from
\* the color fetch or from the write, is caught and gives False.
ExportToJsonResult(events, calendar_info, svc, colorOutcome, writeOk) ==
    LET c == GetColorDefinitions(svc, colorOutcome)
    IN  IF c.status = "raised"
        THEN [status |-> "False", written |-> "no", input |-> events,
              document |-> NoDocument]
        ELSE IF ~writeOk
        THEN [status |-> "False", written |-> "partial", input |-> events,
              document |-> NoDocument]
        ELSE [status |-> "True", written |-> "yes", input |-> events,
              document |-> ExportData(events, calendar_info, c.colors)]

NoExport == [status |-> "none", written |-> "no", input |-> << >>,
             document |-> NoDocument]

RECURSIVE SelectAccepted(_)
\* [event for event in events if is_event_accepted_by_me(event)]
SelectAccepted(events) ==
    IF events = << >> THEN << >>
    ELSE IF is_event_accepted_by_me(Head(events))
         THEN <<Head(events)>> \o SelectAccepted(Tail(events))
         ELSE SelectAccepted(Tail(events))

\* The records the remote calendar is made of: per id an all-day event, a
\* timed event with one or two attendees, and a record whose end carries no
\* date although its start does.
RemoteRecords ==
    {RawEvent(id, TRUE, TRUE, start, TRUE, end, TRUE, org, att # << >>, att) :
        id \in {"e1", "e2"},
        start \in {[date |-> "2024-05-01"]},
        end \in {[date |-> "2024-05-02"]},
        org \in {[email |-> "boss@example.com"]},
        att \in {<< >>}}
    \cup
    {RawEvent(id, FALSE, TRUE, start, TRUE, end, FALSE, Empty, TRUE, att) :
        id \in {"e1", "e2"},
        start \in {[dateTime |-> "2024-05-01T09:00:00Z"]},
        end \in {[dateTime |-> "2024-05-01T10:00:00Z"]},
        att \in {<<[email |-> "guest@example.com", responseStatus |-> "accepted"]>>,
                 <<[email |-> "guest@example.com", responseStatus |-> "declined",
                    self |-> TRUE],
                   [email |-> "guest@example.com", responseStatus |-> "accepted"]>>}}
    \cup
    {RawEvent(id, TRUE, TRUE, start, TRUE, end, FALSE, Empty, FALSE, << >>) :
        id \in {"e2"},
        start \in {[date |-> "2024-05-01"]},
        end \in {[dateTime |-> "2024-05-01T10:00:00Z"]}}

----------------------------------------------------------------------------
(* GoogleCalendarExporter.get_calendars and the steps of main().           *)

\* calendarList().list().execute()['items'] of the account.
RemoteCalendars ==
    <<("id" :> "primary") @@ ("summary" :> "Work") @@ ("primary" :> TRUE)>>

CalendarOutcomes == {"ok", "HttpError", "OtherError"}

\* One entry of the list get_calendars returns.
ProcessCalendar(calendar) ==
    [id |-> calendar["id"],
     summary |-> Get(calendar, "summary", "Unknown"),
     description |-> Get(calendar, "description", ""),
     primary |-> Get(calendar, "primary", FALSE),
     access_role |-> Get(calendar, "accessRole", "reader"),
     color_id |-> Get(calendar, "colorId", ""),
     background_color |-> Get(calendar, "backgroundColor", ""),
     foreground_color |-> Get(calendar, "foregroundColor", "")]

\* get_calendars(): [] without a service or on HttpError; any other
\* exception of the listing call propagates.
GetCalendarsResult(svc, outcome) ==
    IF svc = "None"
    THEN [listed |-> "no", status |-> "returned", calendars |-> << >>]
    ELSE IF outcome = "ok"
    THEN [listed |-> "ok", status |-> "returned",
          calendars |-> [i \in 1..Len(RemoteCalendars) |->
                            ProcessCalendar(RemoteCalendars[i])]]
    ELSE IF outcome = "HttpError"
    THEN [listed |-> outcome, status |-> "returned", calendars |-> << >>]
    ELSE [listed |-> outcome, status |-> "raised", calendars |-> << >>]

RECURSIVE FindCalendar(_, _)
\* for calendar in calendars: if calendar['id'] == args.calendar_id: ...
\* None (here the empty dict, which `calendar_info or {}` makes of it) when
\* no calendar has the id.
FindCalendar(calendars, calendar_id) ==
    IF calendars = << >> THEN Empty
    ELSE IF Head(calendars).id = calendar_id THEN Head(calendars)
    ELSE FindCalendar(Tail(calendars), calendar_id)

\* main() has not been started.
NoMain == [pc |-> "none", list_calendars |-> FALSE, accepted_only |-> FALSE,
           calendar_id |-> "primary", calendar_info |-> Empty, trace |-> << >>]

\* if not exporter.authenticate(): return; if args.list_calendars: ...
AfterAuthenticate(r, list_calendars) ==
    IF r = "raised" THEN "crashed"
    ELSE IF r # "True" THEN "done"
    ELSE IF list_calendars THEN "list_calendars"
    ELSE "get_calendars"

\* A main() that exports whatever get_events returned.
AfterGetEventsNoEmptyTest(f) ==
    IF f.status = "raised" THEN "crashed" ELSE "export"

\* events = exporter.get_events(...); if not events: return
AfterGetEvents(f) ==
    IF f.status = "raised" THEN "crashed"
    ELSE IF f.events = << >> THEN "done"
    ELSE "export"

----------------------------------------------------------------------------
(* Actions.                                                                *)

\* The exporter's fields after __init__, before any call.
Constructed ==
    /\ creds = NoCred
    /\ service = "None"
    /\ calls = << >>
    /\ ret = "none"
    /\ msg = ""
    /\ store0 = NoCred
    /\ creds0 = NoCred
    /\ store1 = NoCred
    /\ service0 = "None"
    /\ dumped = NoCred

\* No function or method has been called yet.
NothingProcessed ==
    /\ normalized = NotRun
    /\ accepted = "none"
    /\ fetch = NoFetch
    /\ export = NoExport
    /\ main = NoMain

\* GoogleCalendarExporter(...): every configuration, every token.pickle.
InitAuth ==
    /\ client_id \in BOOLEAN
    /\ client_secret \in BOOLEAN
    /\ credentials_exists \in BOOLEAN
    /\ token_pickle \in Credentials \cup {NoCred, Corrupt}
    /\ Constructed
    /\ raw_event = Empty
    /\ accept_event = Empty
    /\ remote_items = << >>
    /\ NothingProcessed

\* What authenticate() can do from (c, t, s) under configuration src: one
\* result per outcome of the collaborators it calls.
AuthResults(c, t, s, src) ==
    {AuthResult(AuthState(c, t, s), src, refreshOk, flowOk, newCreds, saveRes,
                validateOk) :
        refreshOk \in BOOLEAN, flowOk \in BOOLEAN, newCreds \in FlowCredentials,
        saveRes \in SaveResults, validateOk \in BOOLEAN}

\* The call exporter.authenticate() and what it does to the exporter.
AuthenticateCall ==
    \E r \in AuthResults(creds, token_pickle, service,
                         SelectAuthSource(client_id, client_secret,
                                          credentials_exists)) :
        /\ creds' = r.creds
        /\ token_pickle' = r.store
        /\ service' = r.service
        /\ calls' = r.calls
        /\ ret' = r.ret
        /\ msg' = r.msg
        /\ dumped' = r.dumped
        /\ store0' = token_pickle
        /\ creds0' = creds
        /\ store1' = r.store
        /\ service0' = service
        /\ UNCHANGED <<client_id, client_secret, credentials_exists>>

\* exporter.authenticate()
Authenticate ==
    /\ AuthenticateCall
    /\ UNCHANGED <<normVars, acceptVars, pipeVars, main>>

\* Time passes between two calls: the access tokens reach their expiry.
Expire(c) == IF c.kind = "cred" THEN [c EXCEPT !.expired = TRUE] ELSE c

TimePasses ==
    /\ ret # "none"
    /\ \/ Expire(token_pickle) # token_pickle
       \/ Expire(creds) # creds
    /\ token_pickle' = Expire(token_pickle)
    /\ creds' = Expire(creds)
    /\ UNCHANGED <<client_id, client_secret, credentials_exists, service, calls,
                   ret, msg, store0, creds0, store1, service0, dumped>>
    /\ UNCHANGED <<normVars, acceptVars, pipeVars, main>>

NextAuth == Authenticate \/ TimePasses

SpecAuth == InitAuth /\ [][NextAuth]_vars

----------------------------------------------------------------------------
(* _process_event on every raw record.                                     *)

\* GoogleCalendarExporter() with nothing configured and no token.pickle.
Unconfigured ==
    /\ client_id = FALSE
    /\ client_secret = FALSE
    /\ credentials_exists = FALSE
    /\ token_pickle = NoCred
    /\ Constructed

InitNormalize ==
    /\ Unconfigured
    /\ raw_event \in RawEvents
    /\ accept_event = Empty
    /\ remote_items = << >>
    /\ NothingProcessed

\* exporter._process_event(raw_event)
Normalize ==
    /\ normalized' = ProcessEvent(raw_event)
    /\ UNCHANGED <<authVars, raw_event, acceptVars, pipeVars, main>>

NextNormalize == Normalize

SpecNormalize == InitNormalize /\ [][NextNormalize]_vars

----------------------------------------------------------------------------
(* is_event_accepted_by_me on every processed event.                       *)

InitAccept ==
    /\ Unconfigured
    /\ raw_event = Empty
    /\ accept_event \in AcceptEvents
    /\ remote_items = << >>
    /\ NothingProcessed

\* is_event_accepted_by_me(accept_event)
CheckAccepted ==
    /\ accepted' = IF is_event_accepted_by_me(accept_event) THEN "True" ELSE "False"
    /\ UNCHANGED <<authVars, normVars, accept_event, pipeVars, main>>

NextAccept == CheckAccepted

SpecAccept == InitAccept /\ [][NextAccept]_vars

----------------------------------------------------------------------------
(* authenticate, get_events and export_to_json on one exporter.            *)

\* An exporter with a client id and secret and a valid token.pickle, and a
\* remote calendar holding some records.
InitExport ==
    /\ client_id = TRUE
    /\ client_secret = TRUE
    /\ credentials_exists = FALSE
    /\ token_pickle = [kind |-> "cred", token |-> TRUE, expired |-> FALSE,
                       refresh |-> TRUE]
    /\ Constructed
    /\ raw_event = Empty
    /\ accept_event = Empty
    /\ remote_items \in SeqsUpTo(RemoteRecords, MaxEvents)
    /\ NothingProcessed

\* The call exporter.get_events(...) and its result.
GetEventsCall ==
    \E outcome \in ListOutcomes :
        fetch' = GetEventsResult(service, outcome, remote_items)

\* exporter.get_events(...)
GetEvents ==
    /\ GetEventsCall
    /\ UNCHANGED <<authVars, normVars, acceptVars, remote_items, export, main>>

\* The call exporter.export_to_json(events, filename, calendar_info).
ExportToJsonCall(events, calendar_info) ==
    export' \in {ExportToJsonResult(events, calendar_info, service, colorOutcome,
                                    writeOk) :
                    colorOutcome \in ColorOutcomes, writeOk \in BOOLEAN}

\* exporter.export_to_json(events, filename, calendar_info) on the events
\* of the last get_events(), all of them or the accepted ones (main's
\* --accepted-only); `calendar_info or {}` makes None the empty dict.
ExportToJson ==
    /\ fetch.status = "returned"
    /\ \E accepted_only \in BOOLEAN, calendar_info \in {Empty, CalendarInfo} :
           ExportToJsonCall(IF accepted_only THEN SelectAccepted(fetch.events)
                                             ELSE fetch.events,
                            calendar_info)
    /\ UNCHANGED <<authVars, normVars, acceptVars, remote_items, fetch, main>>

NextExport == Authenticate \/ GetEvents \/ ExportToJson

SpecExport == InitExport /\ [][NextExport]_vars

----------------------------------------------------------------------------
(* A run of main().                                                        *)

\* main() after parse_args and GoogleCalendarExporter(...): with or without
\* --client-id/--client-secret, with or without a valid token.pickle, every
\* choice of --list-calendars, --accepted-only and --calendar-id.
InitMain ==
    /\ client_id \in BOOLEAN
    /\ client_secret = client_id
    /\ credentials_exists = FALSE
    /\ token_pickle \in {NoCred, [kind |-> "cred", token |-> TRUE,
                                  expired |-> FALSE, refresh |-> TRUE]}
    /\ Constructed
    /\ raw_event = Empty
    /\ accept_event = Empty
    /\ remote_items \in SeqsUpTo(RemoteRecords, MaxEvents)
    /\ normalized = NotRun
    /\ accepted = "none"
    /\ fetch = NoFetch
    /\ export = NoExport
    /\ main \in [pc : {"authenticate"}, list_calendars : BOOLEAN,
                 accepted_only : BOOLEAN, calendar_id : {"primary", "team"},
                 calendar_info : {Empty}, trace : {<< >>}]

\* if not exporter.authenticate(): return
MainAuthenticate ==
    /\ main.pc = "authenticate"
    /\ AuthenticateCall
    /\ main' = [main EXCEPT !.pc = AfterAuthenticate(ret', main.list_calendars),
                            !.trace = Append(@, "authenticate")]
    /\ UNCHANGED <<normVars, acceptVars, pipeVars>>

\* if args.list_calendars: calendars = exporter.get_calendars(); ...; return
MainListCalendars ==
    /\ main.pc = "list_calendars"
    /\ \E outcome \in CalendarOutcomes :
           main' = [main EXCEPT
                       !.pc = IF GetCalendarsResult(service, outcome).status = "raised"
                              THEN "crashed" ELSE "done",
                       !.trace = Append(@, "get_calendars")]
    /\ UNCHANGED <<authVars, normVars, acceptVars, pipeVars>>

\* calendars = exporter.get_calendars(); calendar_info = the one with the id
MainGetCalendars ==
    /\ main.pc = "get_calendars"
    /\ \E outcome \in CalendarOutcomes :
           LET r == GetCalendarsResult(service, outcome)
           IN  main' = [main EXCEPT
                           !.pc = IF r.status = "raised" THEN "crashed"
                                  ELSE "get_events",
                           !.calendar_info = FindCalendar(r.calendars,
                                                          main.calendar_id),
                           !.trace = Append(@, "get_calendars")]
    /\ UNCHANGED <<authVars, normVars, acceptVars, pipeVars>>

\* events = exporter.get_events(...); if not events: return
MainGetEvents ==
    /\ main.pc = "get_events"
    /\ GetEventsCall
    /\ main' = [main EXCEPT !.pc = AfterGetEvents(fetch'),
                            !.trace = Append(@, "get_events")]
    /\ UNCHANGED <<authVars, normVars, acceptVars, remote_items, export>>

\* exporter.export_to_json(events_to_export, args.output, calendar_info),
\* which fetches the color definitions itself.
MainExport ==
    /\ main.pc = "export"
    /\ ExportToJsonCall(IF main.accepted_only THEN SelectAccepted(fetch.events)
                                              ELSE fetch.events,
                        main.calendar_info)
    /\ main' = [main EXCEPT !.pc = "done",
                            !.trace = Append(Append(@, "export_to_json"),
                                             "get_color_definitions")]
    /\ UNCHANGED <<authVars, normVars, acceptVars, remote_items, fetch>>

NextMain ==
    \/ MainAuthenticate
    \/ MainListCalendars
    \/ MainGetCalendars
    \/ MainGetEvents
    \/ MainExport

SpecMain == InitMain /\ [][NextMain]_vars

----------------------------------------------------------------------------
(* Properties of authenticate().  They speak of the last call through      *)
(* calls, ret, msg, store0, store1 and dumped.                             *)

NumCalls(name) == Cardinality({i \in DOMAIN calls : calls[i].call = name})

HasCall(name, result) == \E i \in DOMAIN calls : calls[i] = Call(name, result)

FlowCallNames == {"flow_explicit", "flow_file"}

NumFlows == Cardinality({i \in DOMAIN calls : calls[i].call \in FlowCallNames})

NetworkCallNames == FlowCallNames \cup {"refresh", "validate"}

\* Every call named a comes before every call named b.
Before(a, b) ==
    \A i, j \in DOMAIN calls : (calls[i].call = a /\ calls[j].call = b) => i < j

Returned == ret \in {"True", "False"}

\* The last call began with an expired stored Credential that has a refresh token.
StartedExpiredRefreshable ==
    /\ ret # "none"
    /\ store0.kind = "cred"
    /\ store0.expired
    /\ store0.refresh

\* C1: when authenticate starts with a stored Credential that is expired and
\* has a refresh_token, and the refresh succeeds, it makes exactly one refresh
\* call, never runs the interactive flow, and hands the refreshed Credential
\* to the Credential Store exactly once, after the refresh (the store then
\* holds it, unless the write itself failed, which the code tolerates).
C1_RefreshOnceAndPersist ==
    (StartedExpiredRefreshable /\ HasCall("refresh", "ok"))
        => /\ NumCalls("refresh") = 1
           /\ NumFlows = 0
           /\ NumCalls("save") = 1
           /\ Before("refresh", "save")
           /\ dumped = Refreshed(store0)
           /\ HasCall("save", "ok") => store1 = Refreshed(store0)

C1_Witness ==
    /\ StartedExpiredRefreshable
    /\ HasCall("refresh", "ok")
    /\ HasCall("save", "ok")
    /\ store1 = Refreshed(store0)
    /\ ret = "True"

\* No client id/secret pair and no credentials file.
NoAuthSource == ~(client_id /\ client_secret) /\ ~credentials_exists

\* C2: when authenticate starts with no stored Credential and no AuthSource
\* is configured, it returns failure with the no-credentials message, makes
\* no call at all (no refresh, no flow, no validation, no save) and leaves
\* the Credential Store empty.
C2_NoCredentialsNoCalls ==
    (ret # "none" /\ store0 = NoCred /\ NoAuthSource)
        => /\ ret = "False"
           /\ msg = "NoCredentialsConfigured"
           /\ \A i \in DOMAIN calls :
                  calls[i].call \notin NetworkCallNames \cup {"save"}
           /\ store1 = NoCred

C2_Witness ==
    /\ ret = "False"
    /\ store0 = NoCred
    /\ NoAuthSource
    /\ msg = "NoCredentialsConfigured"
    /\ calls = << >>

\* The source the configuration gives precedence to.
ConfiguredFlowCall ==
    IF client_id /\ client_secret THEN "flow_explicit" ELSE "flow_file"

\* C3: when the refresh of an expired cached Credential fails, authenticate
\* makes no second refresh call, deletes the cached Credential from the store
\* right after the failed refresh and drops it from memory, and then enters
\* full authorization once: with a configured AuthSource exactly one flow
\* call, of that source, after the deletion; with none, the immediate
\* no-credentials failure.  The old Credential is nowhere afterwards.
C3_RefreshFailureFallsThrough ==
    HasCall("refresh", "fail")
        => /\ NumCalls("refresh") = 1
           /\ store0.kind = "cred" => /\ NumCalls("remove") = 1
                                      /\ Before("refresh", "remove")
                                      /\ \A n \in FlowCallNames : Before("remove", n)
           /\ IF NoAuthSource
              THEN NumFlows = 0 /\ ret = "False" /\ msg = "NoCredentialsConfigured"
              ELSE NumFlows = 1 /\ NumCalls(ConfiguredFlowCall) = 1
           /\ NumCalls("validate") = 0 => creds = NoCred /\ store1 = NoCred
           /\ NumCalls("validate") = 1 => dumped \in FlowCredentials
           /\ store1 \in {NoCred, Corrupt} \cup FlowCredentials
           /\ store1 = NoCred \/ HasCall("save", "ok") \/ HasCall("save", "truncated")

C3_Witness ==
    /\ HasCall("refresh", "fail")
    /\ HasCall("remove", "ok")
    /\ HasCall("flow_file", "ok")
    /\ store0.kind = "cred"
    /\ ret = "True"

\* C4: if the validation call fails, authenticate returns failure whatever
\* way the Credential was obtained (cache, refresh or flow), and the
\* exporter holds no service afterwards.
C4_ValidationFailureFails ==
    HasCall("validate", "fail") => ret = "False" /\ service = "None"

C4_Witness ==
    /\ HasCall("validate", "fail")
    /\ HasCall("flow_explicit", "ok")
    /\ service0 = "Service"
    /\ service = "None"

\* C5 as stated: whenever authenticate returns failure, the Credential Store
\* is as it was when the call began, or has been emptied.
C5_FailureOnlyInvalidates ==
    ret = "False" => store1 \in {store0, NoCred}

\* C5 amended: a failure before the validation call (no AuthSource, failed
\* flow) leaves the store as it was or emptied; a failure of the validation
\* call does so too when nothing was saved in the call, and otherwise leaves
\* what the save left: the refreshed or newly obtained Credential, the store
\* as it was before the save, or a truncated file.
C5_FailureStoreEffects ==
    ret = "False"
        => IF msg = "Service" /\ NumCalls("save") = 1
           THEN /\ Valid(dumped)
                /\ HasCall("save", "ok") => store1 = dumped
                /\ HasCall("save", "unchanged") => store1 \in {store0, NoCred}
                /\ HasCall("save", "truncated") => store1 = Corrupt
           ELSE /\ NumCalls("save") = 0
                /\ store1 \in {store0, NoCred}

C5_Witness ==
    /\ ret = "False"
    /\ msg = "Service"
    /\ HasCall("save", "ok")
    /\ store1 = dumped
    /\ store1 # store0
    /\ store0.kind = "cred"

----------------------------------------------------------------------------
(* Properties of is_event_accepted_by_me.                                  *)

SelfMarked(e) == {i \in DOMAIN e.attendees : e.attendees[i].self}

HaveAccepted(e) ==
    {i \in DOMAIN e.attendees : e.attendees[i].response_status \in {"accepted", "tentative"}}

\* The ordered strategies of the specification, first match winning; with
\* several self-marked attendees the first of them is the match.
AcceptedByOwner(e) ==
    IF SelfMarked(e) # {}
    THEN (CHOOSE i \in SelfMarked(e) : \A j \in SelfMarked(e) : i <= j) \in HaveAccepted(e)
    ELSE IF e.organizer.self THEN TRUE
    ELSE IF Len(e.attendees) = 0 THEN TRUE
    ELSE Cardinality(HaveAccepted(e)) = 1

\* C6: for every event, is_event_accepted_by_me answers what the ordered
\* strategies give: (1) a self-marked attendee decides by its status alone,
\* (2) else a self organizer gives true, (3) else no attendees gives true,
\* (4) else exactly one accepted or tentative attendee gives true, (5) else
\* false.
C6_AcceptanceStrategies ==
    accepted # "none"
        => accepted = (IF AcceptedByOwner(accept_event) THEN "True" ELSE "False")

\* Two attendees, neither self, both accepted, organizer not self: false.
C6_Witness ==
    /\ accepted = "False"
    /\ ~accept_event.organizer.self
    /\ SelfMarked(accept_event) = {}
    /\ Cardinality(HaveAccepted(accept_event)) > 1

----------------------------------------------------------------------------
(* Properties of _process_event.                                           *)

RawStart == Get(raw_event, "start", Empty)

RawEnd == Get(raw_event, "end", Empty)

\* The boundary carries a date and no time of day.
DateOnly(b) == DOMAIN b = {"date"}

\* The boundary carries a full timestamp and no date.
TimestampOnly(b) == DOMAIN b = {"dateTime"}

\* C7 as stated: for every record normalization accepts, all_day holds iff
\* both boundaries are date-only; then the time fields are the date strings,
\* otherwise they are the full timestamp strings.
C7_AllDayIffDateOnly ==
    normalized.status = "ok"
        => LET e == normalized.event
           IN  /\ e.all_day <=> (DateOnly(RawStart) /\ DateOnly(RawEnd))
               /\ e.all_day => /\ e.start_time = RawStart["date"]
                               /\ e.end_time = RawEnd["date"]
               /\ ~e.all_day => /\ "dateTime" \in DOMAIN RawStart
                                /\ "dateTime" \in DOMAIN RawEnd
                                /\ e.start_time = RawStart["dateTime"]
                                /\ e.end_time = RawEnd["dateTime"]

\* C7 amended: for every record normalization accepts, all_day holds iff the
\* start boundary carries a date (the end boundary then carries one too);
\* then the time fields are the date strings of start and end, otherwise
\* each is its boundary's timestamp string, or '' when the boundary has
\* none.  Records whose boundaries are both date-only are accepted with
\* all_day true, records whose boundaries are both timestamp-only with
\* all_day false and the timestamps as time fields.
C7_AllDayIffStartHasDate ==
    /\ normalized.status = "ok"
        => LET e == normalized.event
           IN  /\ e.all_day <=> "date" \in DOMAIN RawStart
               /\ e.all_day => /\ "date" \in DOMAIN RawEnd
                               /\ e.start_time = RawStart["date"]
                               /\ e.end_time = RawEnd["date"]
               /\ ~e.all_day => /\ e.start_time = Get(RawStart, "dateTime", "")
                                /\ e.end_time = Get(RawEnd, "dateTime", "")
    /\ (normalized.status # "none" /\ DateOnly(RawStart) /\ DateOnly(RawEnd))
        => normalized.status = "ok" /\ normalized.event.all_day
    /\ (normalized.status # "none" /\ TimestampOnly(RawStart) /\ TimestampOnly(RawEnd))
        => /\ normalized.status = "ok"
           /\ ~normalized.event.all_day
           /\ normalized.event.start_time = RawStart["dateTime"]
           /\ normalized.event.end_time = RawEnd["dateTime"]

C7_Witness ==
    /\ normalized.status = "ok"
    /\ DateOnly(RawStart)
    /\ DateOnly(RawEnd)
    /\ normalized.event.all_day
    /\ normalized.event.start_time = "2024-05-01"
    /\ normalized.event.end_time = "2024-05-02"

----------------------------------------------------------------------------
(* Properties of get_events and export_to_json.                            *)

\* The remote answered and _process_event raised on one of its records.
ProcessingFailed ==
    /\ fetch.listed = "ok"
    /\ \E i \in DOMAIN fetch.items : ProcessEvent(fetch.items[i]).status # "ok"

\* C8: whatever fails, the listing call (any kind of error) or the
\* processing of its records, get_events returns the empty sequence: no
\* exception leaves it and no partial list is returned.
C8_AnyFailureGivesEmpty ==
    (fetch.listed \in {"HttpError", "OtherError"} \/ ProcessingFailed)
        => fetch.status = "returned" /\ fetch.events = << >>

\* C9: when the listing call answers with N records, get_events returns N
\* events, the i-th being the normalization of the i-th record.
C9_OneEventPerRecord ==
    fetch.listed = "ok"
        => /\ fetch.status = "returned"
           /\ Len(fetch.events) = Len(fetch.items)
           /\ \A i \in DOMAIN fetch.items :
                  fetch.events[i] = ProcessEvent(fetch.items[i]).event

\* C10: the document export_to_json writes for N events has N entries in
\* the same order and total_events = N; no entry has an attendees field and
\* every other field of an entry, attendees_count included, is that of the
\* event it comes from.
C10_ExportKeepsEvents ==
    export.status = "True"
        => LET doc == export.document
               input == export.input
           IN  /\ Len(doc.events) = Len(input)
               /\ doc.total_events = Len(input)
               /\ \A i \in DOMAIN input :
                      /\ "attendees" \notin DOMAIN doc.events[i]
                      /\ DOMAIN doc.events[i] = DOMAIN input[i] \ {"attendees"}
                      /\ \A k \in DOMAIN doc.events[i] : doc.events[i][k] = input[i][k]
                      /\ doc.events[i].attendees_count = input[i].attendees_count

C10_Witness ==
    /\ export.status = "True"
    /\ Len(export.input) = MaxEvents
    /\ Len(export.document.events) = MaxEvents
    /\ export.input[1].id # export.input[MaxEvents].id
    /\ \E i \in DOMAIN export.input :
           /\ Len(export.input[i].attendees) > 1
           /\ export.document.events[i].attendees_count = Len(export.input[i].attendees)

----------------------------------------------------------------------------
(* More properties of authenticate().                                      *)

\* The Credential the last call had in hand after reading token.pickle.
LoadedCreds == IF store0.kind = "cred" THEN store0 ELSE creds0

\* The last call needed full interactive authorization: what it loaded was
\* not valid and no refresh made it so.
FullAuthNeeded ==
    /\ Returned
    /\ ~Valid(LoadedCreds)
    /\ ~HasCall("refresh", "ok")

\* C11: an authenticate call runs at most one flow, and runs one exactly when
\* full authorization is needed and a source is configured: the explicit
\* flow when both client id and secret are set, even if the credentials file
\* exists; the file flow only when the pair is incomplete and the file
\* exists.
C11_OneSourceByPrecedence ==
    Returned
        => /\ NumFlows <= 1
           /\ ~FullAuthNeeded => NumFlows = 0
           /\ FullAuthNeeded =>
                IF client_id /\ client_secret
                THEN NumCalls("flow_explicit") = 1 /\ NumCalls("flow_file") = 0
                ELSE IF credentials_exists
                THEN NumCalls("flow_file") = 1 /\ NumCalls("flow_explicit") = 0
                ELSE NumFlows = 0

C11_Witness ==
    /\ client_id /\ client_secret /\ credentials_exists
    /\ FullAuthNeeded
    /\ HasCall("flow_explicit", "ok")
    /\ NumCalls("flow_file") = 0

\* C12: when the Credential loaded from the store is still valid, the call
\* consists of the load and the validation call: no refresh, no flow, no
\* write to the store.
C12_ValidCacheUsedDirectly ==
    (ret # "none" /\ Valid(store0))
        => /\ calls \in {<<Call("load", "ok"), Call("validate", r)>> : r \in {"ok", "fail"}}
           /\ store1 = store0
           /\ dumped = NoCred
           /\ ret = (IF HasCall("validate", "ok") THEN "True" ELSE "False")

C12_Witness ==
    /\ Valid(store0)
    /\ calls = <<Call("load", "ok"), Call("validate", "ok")>>
    /\ ret = "True"
    /\ store1 = store0

SaveFailed == HasCall("save", "unchanged") \/ HasCall("save", "truncated")

\* C13: when the save after a refresh or a flow fails, authenticate still
\* makes the validation call, with the Credential it holds in memory, and
\* succeeds iff that call succeeds.
C13_SaveFailureNotFatal ==
    SaveFailed
        => /\ NumCalls("validate") = 1
           /\ Before("save", "validate")
           /\ Valid(dumped)
           /\ ret = (IF HasCall("validate", "ok") THEN "True" ELSE "False")
           /\ ret = "True" => service = "Service"

C13_Witness ==
    /\ SaveFailed
    /\ HasCall("flow_file", "ok")
    /\ HasCall("validate", "ok")
    /\ ret = "True"
    /\ service = "Service"
    /\ store1 # dumped

\* What the three fetching methods return without a service: nothing, and
\* no remote call made.
FetchesAnswerEmpty(svc) ==
    /\ \A outcome \in CalendarOutcomes :
           GetCalendarsResult(svc, outcome) =
               [listed |-> "no", status |-> "returned", calendars |-> << >>]
    /\ \A outcome \in ListOutcomes :
           LET r == GetEventsResult(svc, outcome, remote_items)
           IN  r.listed = "no" /\ r.status = "returned" /\ r.events = << >>
    /\ \A outcome \in ColorOutcomes :
           GetColorDefinitions(svc, outcome) = GetColorDefinitions("None", "ok")

\* C14: whenever the most recent authenticate returned failure, the exporter
\* holds no service, so get_calendars, get_events and get_color_definitions
\* return empty results without a remote call, also when an earlier
\* authenticate on the same exporter had succeeded.
C14_FailedAuthLeavesNoService ==
    ret = "False" => service = "None" /\ FetchesAnswerEmpty(service)

----------------------------------------------------------------------------
(* Properties of main().                                                   *)

MainCalled(name) == \E i \in 1..Len(main.trace) : main.trace[i] = name

MainEnded == main.pc \in {"done", "crashed"}

Exported ==
    \/ export # NoExport
    \/ MainCalled("export_to_json")
    \/ MainCalled("get_color_definitions")

\* C15: a run of main calls export_to_json, and fetches the color
\* definitions, only after authenticate returned True, outside
\* list-calendars mode, and after get_events returned a non-empty sequence;
\* when authentication fails, in list-calendars mode, and when the fetch
\* gives no events (a failed fetch included) the run ends without either.
C15_ExportOnlyAfterAuthAndEvents ==
    /\ Exported
           => /\ ret = "True"
              /\ ~main.list_calendars
              /\ fetch.status = "returned"
              /\ fetch.events # << >>
              /\ main.trace = <<"authenticate", "get_calendars", "get_events",
                                "export_to_json", "get_color_definitions">>
    /\ (MainCalled("authenticate") /\ ret # "True")
           => MainEnded /\ main.trace = <<"authenticate">> /\ ~Exported
    /\ (main.list_calendars /\ MainCalled("get_calendars"))
           => /\ MainEnded
              /\ main.trace = <<"authenticate", "get_calendars">>
              /\ fetch = NoFetch
              /\ ~Exported
    /\ (MainCalled("get_events") /\ fetch.events = << >>)
           => MainEnded /\ ~Exported

C15_Witness ==
    /\ main.pc = "done"
    /\ ret = "True"
    /\ ~main.list_calendars
    /\ fetch.listed = "HttpError"
    /\ main.trace = <<"authenticate", "get_calendars", "get_events">>
    /\ export = NoExport

====
